---- MODULE Spec2Model ----
(***************************************************************************)
(* A model of the pep440 crate (src/lib.rs): Version::parse with its       *)
(* regular expression and parse_helper, Display::fmt and the Ord /         *)
(* PartialEq implementations of Version.                                   *)
(*                                                                         *)
(* A string is a sequence of one-character strings.  Option<T> is a        *)
(* sequence of length 0 (None) or 1 (Some).  Result<T> is a record         *)
(* [ok, val]: val is the value when ok, the error otherwise.               *)
(***************************************************************************)
EXTENDS Integers, Sequences, FiniteSets, TLC

VARIABLES
    input,      \* the &str handed to Version::parse
    result,     \* None, or Some(the Result of Version::parse(input))
    rendered,   \* None, or Some(format!("{}", version)) of the parsed version
    reparsed,   \* None, or Some(the Result of Version::parse(rendered))
    roundtrip,  \* None, or Some(the Ordering of the parsed and the reparsed version)
    a, b, c,    \* three Version values handed to the comparator
    ord         \* None, or Some(record of the comparator's answers on a, b, c)

vars == <<input, result, rendered, reparsed, roundtrip, a, b, c, ord>>

----------------------------------------------------------------------------
(* Bounds *)

\* Width in bits of the unsigned integer type of every numeric field.  The
\* source uses u64; the model scales the width down so that overflowing
\* numerals stay short.  Everything below depends on the width only through
\* u64_MAX.
U64Bits == 4

\* Longest release vector among the comparator's operands.
MaxRelease == 2

----------------------------------------------------------------------------
(* Option and Result *)

None == << >>
Some(x) == <<x>>
is_some(o) == Len(o) = 1
unwrap(o) == o[1]
unwrap_or(o, d) == IF is_some(o) THEN o[1] ELSE d

Ok(v) == [ok |-> TRUE, val |-> v]
Err(e) == [ok |-> FALSE, val |-> e]

----------------------------------------------------------------------------
(* Characters *)

LowerLetters ==
    <<"a","b","c","d","e","f","g","h","i","j","k","l","m",
      "n","o","p","q","r","s","t","u","v","w","x","y","z">>
UpperLetters ==
    <<"A","B","C","D","E","F","G","H","I","J","K","L","M",
      "N","O","P","Q","R","S","T","U","V","W","X","Y","Z">>
Digits == <<"0","1","2","3","4","5","6","7","8","9">>

LowerSet == {LowerLetters[i] : i \in 1..26}
UpperSet == {UpperLetters[i] : i \in 1..26}
DigitSet == {Digits[i] : i \in 1..10}

\* (?i): a letter of the pattern matches either case of itself.
ToLower == [ch \in UpperSet |-> LowerLetters[CHOOSE i \in 1..26 : UpperLetters[i] = ch]]
Fold(ch) == IF ch \in UpperSet THEN ToLower[ch] ELSE ch

DigitValue == [ch \in DigitSet |-> (CHOOSE i \in 1..10 : Digits[i] = ch) - 1]

\* \d and \s under (?-u): the ASCII classes.  "<VT>" stands for U+000B.
IsDigit(ch) == ch \in DigitSet
SpaceSet == {" ", "\t", "\n", "\r", "\f", "<VT>"}
\* [._-]
SepSet == {".", "_", "-"}
IsSep(ch) == ch \in SepSet
\* [a-z0-9._-] under (?i)
LocalSet == LowerSet \cup UpperSet \cup DigitSet \cup SepSet
\* the characters of \d+(?:\.\d+)*
DigitOrDotSet == DigitSet \cup {"."}

----------------------------------------------------------------------------
(* The regular expression RE of Version::parse, as the backtracking search  *)
(* whose first success is the leftmost-first match the regex crate reports. *)
(* A position of the pattern is a stage; Alts lists, in the pattern's order *)
(* of preference, the ways to leave a stage at text position p.             *)

NoCaptures == [g \in 1..12 |-> None]

\* Number of consecutive characters of s from p on that belong to the class.
Run(s, p, class) ==
    CHOOSE n \in 0..(Len(s) + 1 - p) :
        /\ \A i \in p..(p + n - 1) : s[i] \in class
        /\ (p + n > Len(s) \/ s[p + n] \notin class)

\* The literal lit (lower case) stands at position p of s, in either case.
LitAt(s, p, lit) ==
    /\ p + Len(lit) - 1 <= Len(s)
    /\ \A i \in 1..Len(lit) : Fold(s[p + i - 1]) = lit[i]

Alt(st, p, caps) == [st |-> st, pos |-> p, caps |-> caps]
Cap(caps, g, s, from, to) == [caps EXCEPT ![g] = Some(SubSeq(s, from, to))]

\* X* or X+ over a character class, greedy: the longest run first.
\* Each run length k in hi..lo (descending) leaves for stage st.
Greedy(s, p, hi, lo, st, caps, g) ==
    [j \in 1..(IF hi >= lo THEN hi - lo + 1 ELSE 0) |->
        LET k == hi - j + 1
        IN  Alt(st, p + k, IF g = 0 THEN caps ELSE Cap(caps, g, s, p, p + k - 1))]

\* [._-]? in front of stage st.
OptSep(s, p, st, caps) ==
    (IF p <= Len(s) /\ IsSep(s[p]) THEN <<Alt(st, p + 1, caps)>> ELSE << >>)
        \o <<Alt(st, p, caps)>>

\* An alternation of literals, each capturing into its group, leaving for st.
RECURSIVE Literals(_, _, _, _, _, _)
Literals(s, p, lits, i, st, caps) ==
    IF i > Len(lits) THEN << >>
    ELSE (IF LitAt(s, p, lits[i].lit)
          THEN <<Alt(st, p + Len(lits[i].lit),
                     Cap(caps, lits[i].g, s, p, p + Len(lits[i].lit) - 1))>>
          ELSE << >>)
         \o Literals(s, p, lits, i + 1, st, caps)

\* Mutant of PreSpelling: the spelling c filed with the betas, (b|beta|c).
PreSpelling_c_with_beta ==
    << [lit |-> <<"a">>, g |-> 3], [lit |-> <<"a","l","p","h","a">>, g |-> 3],
       [lit |-> <<"b">>, g |-> 4], [lit |-> <<"b","e","t","a">>, g |-> 4],
       [lit |-> <<"c">>, g |-> 4],
       [lit |-> <<"r","c">>, g |-> 5],
       [lit |-> <<"p","r","e">>, g |-> 5],
       [lit |-> <<"p","r","e","v","i","e","w">>, g |-> 5] >>

\* (?:(a|alpha)|(b|beta)|(rc|c|pre|preview))
PreSpelling ==
    << [lit |-> <<"a">>, g |-> 3], [lit |-> <<"a","l","p","h","a">>, g |-> 3],
       [lit |-> <<"b">>, g |-> 4], [lit |-> <<"b","e","t","a">>, g |-> 4],
       [lit |-> <<"r","c">>, g |-> 5], [lit |-> <<"c">>, g |-> 5],
       [lit |-> <<"p","r","e">>, g |-> 5],
       [lit |-> <<"p","r","e","v","i","e","w">>, g |-> 5] >>
\* (post|rev|r)
PostSpelling ==
    << [lit |-> <<"p","o","s","t">>, g |-> 7], [lit |-> <<"r","e","v">>, g |-> 7],
       [lit |-> <<"r">>, g |-> 7] >>
\* (dev)
DevSpelling == << [lit |-> <<"d","e","v">>, g |-> 10] >>

\* The ends e of the matches of \d+(?:\.\d+)* that start at p, longest first.
ReleaseEnds(s, p) ==
    LET m == Run(s, p, DigitOrDotSet)
        good(e) == /\ IsDigit(s[p]) /\ IsDigit(s[e])
                   /\ \A i \in p..(e - 1) : ~(s[i] = "." /\ s[i + 1] = ".")
        all == [j \in 1..m |-> p + m - j]
    IN  SelectSeq(all, good)

Alts(st, s, p, caps) ==
    CASE st = "lead" ->        \* ^\s*
            Greedy(s, p, Run(s, p, SpaceSet), 0, "v", caps, 0)
      [] st = "v" ->           \* v?
            (IF LitAt(s, p, <<"v">>) THEN <<Alt("epoch", p + 1, caps)>> ELSE << >>)
                \o <<Alt("epoch", p, caps)>>
      [] st = "epoch" ->       \* (?:(\d+)!)?
            LET n == Run(s, p, DigitSet)
                bang(x) == x.pos <= Len(s) /\ s[x.pos] = "!"
                step(x) == Alt("release", x.pos + 1, x.caps)
                with == SelectSeq(Greedy(s, p, n, 1, "bang", caps, 1), bang)
            IN  [j \in 1..Len(with) |-> step(with[j])] \o <<Alt("release", p, caps)>>
      [] st = "release" ->     \* (\d+(?:\.\d+)*)
            LET ends == ReleaseEnds(s, p)
            IN  [j \in 1..Len(ends) |-> Alt("pre", ends[j] + 1, Cap(caps, 2, s, p, ends[j]))]
      [] st = "pre" ->         \* (?: [._-]? ... )?
            OptSep(s, p, "pre_spelling", caps) \o <<Alt("post", p, caps)>>
      [] st = "pre_spelling" ->
            Literals(s, p, PreSpelling, 1, "pre_sep", caps)
      [] st = "pre_sep" ->     \* [._-]?
            OptSep(s, p, "pre_num", caps)
      [] st = "pre_num" ->     \* (\d+)?
            Greedy(s, p, Run(s, p, DigitSet), 1, "post", caps, 6) \o <<Alt("post", p, caps)>>
      [] st = "post" ->        \* (?: [._-]? (post|rev|r) ... | -(\d+) )?
            OptSep(s, p, "post_spelling", caps)
                \o (IF p <= Len(s) /\ s[p] = "-"
                    THEN <<Alt("post_implicit", p + 1, caps)>> ELSE << >>)
                \o <<Alt("dev", p, caps)>>
      [] st = "post_spelling" ->
            Literals(s, p, PostSpelling, 1, "post_sep", caps)
      [] st = "post_sep" ->    \* [._-]?
            OptSep(s, p, "post_num", caps)
      [] st = "post_num" ->    \* (\d+)?
            Greedy(s, p, Run(s, p, DigitSet), 1, "dev", caps, 8) \o <<Alt("dev", p, caps)>>
      [] st = "post_implicit" ->   \* -(\d+)
            Greedy(s, p, Run(s, p, DigitSet), 1, "dev", caps, 9)
      [] st = "dev" ->         \* (?: [._-]? (dev) (\d+)? )?
            OptSep(s, p, "dev_spelling", caps) \o <<Alt("local", p, caps)>>
      [] st = "dev_spelling" ->
            Literals(s, p, DevSpelling, 1, "dev_num", caps)
      [] st = "dev_num" ->     \* (\d+)?
            Greedy(s, p, Run(s, p, DigitSet), 1, "local", caps, 11) \o <<Alt("local", p, caps)>>
      [] st = "local" ->       \* (?: \+([a-z0-9._-]+) )?
            (IF p <= Len(s) /\ s[p] = "+"
             THEN Greedy(s, p + 1, Run(s, p + 1, LocalSet), 1, "trail", caps, 12)
             ELSE << >>)
                \o <<Alt("trail", p, caps)>>
      [] st = "trail" ->       \* \s*$
            Greedy(s, p, Run(s, p, SpaceSet), 0, "end", caps, 0)

RECURSIVE Match(_, _, _, _), FirstMatch(_, _, _)
\* Some(captures) of the preferred way to match s from stage st at p, or None.
Match(st, s, p, caps) ==
    IF st = "end"
    THEN IF p = Len(s) + 1 THEN Some(caps) ELSE None
    ELSE FirstMatch(s, Alts(st, s, p, caps), 1)
FirstMatch(s, alts, i) ==
    IF i > Len(alts) THEN None
    ELSE LET r == Match(alts[i].st, s, alts[i].pos, alts[i].caps)
         IN  IF is_some(r) THEN r ELSE FirstMatch(s, alts, i + 1)

\* re.captures(s): None, or Some(captures), captures[g] being captures.at(g).
RE_captures(s) == Match("lead", s, 1, NoCaptures)

----------------------------------------------------------------------------
(* str::parse::<u64>(), as parse_helper calls it on a captured lexeme:      *)
(* base 10, one checked multiplication and one checked addition per digit.  *)

u64_MAX == 2^U64Bits - 1

\* Mutant of from_str_digits: wrapping arithmetic in place of the checked one.
RECURSIVE from_str_wrapping(_, _, _)
from_str_wrapping(src, i, acc) ==
    IF i > Len(src) THEN Ok(acc)
    ELSE IF ~IsDigit(src[i]) THEN Err("InvalidDigit")
    ELSE from_str_wrapping(src, i + 1, (acc * 10 + DigitValue[src[i]]) % (u64_MAX + 1))

RECURSIVE from_str_digits(_, _, _)
from_str_digits(src, i, acc) ==
    IF i > Len(src) THEN Ok(acc)
    ELSE IF ~IsDigit(src[i]) THEN Err("InvalidDigit")
    ELSE IF acc * 10 > u64_MAX THEN Err("Overflow")
    ELSE IF acc * 10 + DigitValue[src[i]] > u64_MAX THEN Err("Overflow")
    ELSE from_str_digits(src, i + 1, acc * 10 + DigitValue[src[i]])

from_str(src) == IF Len(src) = 0 THEN Err("Empty") ELSE from_str_digits(src, 1, 0)

----------------------------------------------------------------------------
(* errors: error_chain's ErrorKind.  Parse(v) is the crate's own kind;      *)
(* chain_err wraps the failure of an integer conversion in ErrorKind::Msg.  *)

ErrorKind_Parse(v) == [kind |-> "Parse", text |-> v]
ErrorKind_Msg(m) == [kind |-> "Msg", text |-> m]

\* val.parse().chain_err(|| format!("invalid integer value for <segment>: {}", val))
parse_int(val, message) ==
    LET r == from_str(val)
    IN  IF r.ok THEN r ELSE Err(ErrorKind_Msg(<<message>> \o val))

----------------------------------------------------------------------------
(* PreReleaseSegment and Version *)

Alpha(n) == [kind |-> "Alpha", val |-> n]
Beta(n) == [kind |-> "Beta", val |-> n]
ReleaseCandidate(n) == [kind |-> "ReleaseCandidate", val |-> n]

Version(epoch, release, pre, post, dev, local_label) ==
    [epoch |-> epoch, release |-> release, pre_release |-> pre,
     post_release |-> post, dev_release |-> dev, local_label |-> local_label]

----------------------------------------------------------------------------
(* Version::parse_helper *)

\* str::split('.')
RECURSIVE split(_, _)
split(s, sep) ==
    IF \A i \in 1..Len(s) : s[i] # sep THEN <<s>>
    ELSE LET i == CHOOSE k \in 1..Len(s) : s[k] = sep /\ \A j \in 1..(k - 1) : s[j] # sep
         IN  <<SubSeq(s, 1, i - 1)>> \o split(SubSeq(s, i + 1, Len(s)), sep)

\* for val in release_additional_group.split('.') { release.push(val.parse()...?) }
RECURSIVE release_loop(_, _, _)
release_loop(vals, i, release) ==
    IF i > Len(vals) THEN Ok(release)
    ELSE LET r == parse_int(vals[i], "invalid integer value for release segment: ")
         IN  IF r.ok THEN release_loop(vals, i + 1, Append(release, r.val)) ELSE r

\* '_' | '-' => '.', _ => c
local_label_map(val) ==
    [i \in 1..Len(val) |-> IF val[i] \in {"_", "-"} THEN "." ELSE val[i]]

\* let epoch = if let Some(epoch) = captures.at(1) { Some(epoch.parse()...?) } else { None };
epoch_of(captures) ==
    IF is_some(captures[1])
    THEN LET r == parse_int(unwrap(captures[1]), "invalid integer value for epoch: ")
         IN  IF r.ok THEN Ok(Some(r.val)) ELSE r
    ELSE Ok(None)

\* let mut release = vec![]; if let Some(..) = captures.at(2) { for .. }
release_of(captures) ==
    IF is_some(captures[2])
    THEN release_loop(split(unwrap(captures[2]), "."), 1, << >>)
    ELSE Ok(<< >>)

\* let pre_val = if let Some(val) = captures.at(6) { val.parse()...? } else { 0 };
pre_val_of(captures) ==
    IF is_some(captures[6])
    THEN parse_int(unwrap(captures[6]), "invalid integer value for pre-release segment: ")
    ELSE Ok(0)

\* let pre = if captures.at(3).is_some() { Some(Alpha(pre_val)) } else if ...
pre_of(captures, pre_val) ==
    IF is_some(captures[3]) THEN Some(Alpha(pre_val))
    ELSE IF is_some(captures[4]) THEN Some(Beta(pre_val))
    ELSE IF is_some(captures[5]) THEN Some(ReleaseCandidate(pre_val))
    ELSE None

\* let post = if captures.at(7).is_some() { Some(.. at(8) .. or 0) }
\*            else if let Some(val) = captures.at(9) { Some(..) } else { None };
post_of(captures) ==
    IF is_some(captures[7])
    THEN IF is_some(captures[8])
         THEN LET r == parse_int(unwrap(captures[8]),
                                 "invalid integer value for post release segment: ")
              IN  IF r.ok THEN Ok(Some(r.val)) ELSE r
         ELSE Ok(Some(0))
    ELSE IF is_some(captures[9])
    THEN LET r == parse_int(unwrap(captures[9]),
                            "invalid integer value for post release segment: ")
         IN  IF r.ok THEN Ok(Some(r.val)) ELSE r
    ELSE Ok(None)

\* Mutant of dev_of: the segment taken from its number alone, so that a tag
\* without digits is no segment.
dev_of_number_only(captures) ==
    IF is_some(captures[11])
    THEN LET r == parse_int(unwrap(captures[11]),
                            "invalid integer value for development release segment: ")
         IN  IF r.ok THEN Ok(Some(r.val)) ELSE r
    ELSE Ok(None)

\* let dev = if captures.at(10).is_some() { Some(.. at(11) .. or 0) } else { None };
dev_of(captures) ==
    IF is_some(captures[10])
    THEN IF is_some(captures[11])
         THEN LET r == parse_int(unwrap(captures[11]),
                                 "invalid integer value for development release segment: ")
              IN  IF r.ok THEN Ok(Some(r.val)) ELSE r
         ELSE Ok(Some(0))
    ELSE Ok(None)

\* let local_label = captures.at(12).map(|val| val.chars().map(..).collect());
local_label_of(captures) ==
    IF is_some(captures[12]) THEN Some(local_label_map(unwrap(captures[12]))) ELSE None

\* The statements in the order of the source; each `?` returns the first error.
parse_helper(captures) ==
    LET epoch == epoch_of(captures)
        release == release_of(captures)
        pre_val == pre_val_of(captures)
        post == post_of(captures)
        dev == dev_of(captures)
    IN  IF ~epoch.ok THEN epoch
        ELSE IF ~release.ok THEN release
        ELSE IF ~pre_val.ok THEN pre_val
        ELSE IF ~post.ok THEN post
        ELSE IF ~dev.ok THEN dev
        ELSE Ok(Version(epoch.val, release.val, pre_of(captures, pre_val.val),
                        post.val, dev.val, local_label_of(captures)))

----------------------------------------------------------------------------
(* Version::parse.  RE compiles, so the arm `_ => bail!("unable to create   *)
(* regex")` is never taken.                                                 *)

parse(s) ==
    LET captures == RE_captures(s)
    IN  IF is_some(captures)
        THEN parse_helper(unwrap(captures))
        ELSE Err(ErrorKind_Parse(s))

----------------------------------------------------------------------------
(* impl Display for Version *)

\* write!(f, "{}", n) of an unsigned integer
RECURSIVE to_string(_)
to_string(n) ==
    IF n < 10 THEN <<Digits[n + 1]>>
    ELSE to_string(n \div 10) \o <<Digits[(n % 10) + 1]>>

\* Mutant of fmt_release: "{}" written where "{}." is.
RECURSIVE fmt_release_no_dot(_, _)
fmt_release_no_dot(release, i) ==
    IF i > Len(release) - 1 THEN << >>
    ELSE to_string(release[i]) \o fmt_release_no_dot(release, i + 1)

\* for val in &self.release[0..len - 1] { write!(f, "{}.", val) }
RECURSIVE fmt_release(_, _)
fmt_release(release, i) ==
    IF i > Len(release) - 1 THEN << >>
    ELSE to_string(release[i]) \o <<".">> \o fmt_release(release, i + 1)

\* The slice [0..len - 1] and the index [len - 1] need a non-empty release;
\* release[0] of an empty one is as undefined here as it is a panic there.
fmt(self) ==
    LET len == Len(self.release)
    IN  (IF is_some(self.epoch) THEN to_string(unwrap(self.epoch)) \o <<"!">> ELSE << >>)
        \o fmt_release(self.release, 1)
        \o to_string(self.release[len])
        \o (IF ~is_some(self.pre_release) THEN << >>
            ELSE LET seg == unwrap(self.pre_release)
                 IN  CASE seg.kind = "Alpha" -> <<"a">> \o to_string(seg.val)
                       [] seg.kind = "Beta" -> <<"b">> \o to_string(seg.val)
                       [] seg.kind = "ReleaseCandidate" -> <<"r", "c">> \o to_string(seg.val))
        \o (IF is_some(self.post_release)
            THEN <<".", "p", "o", "s", "t">> \o to_string(unwrap(self.post_release))
            ELSE << >>)
        \o (IF is_some(self.dev_release)
            THEN <<".", "d", "e", "v">> \o to_string(unwrap(self.dev_release))
            ELSE << >>)
        \o (IF is_some(self.local_label)
            THEN <<"+">> \o unwrap(self.local_label)
            ELSE << >>)

----------------------------------------------------------------------------
(* impl Ord, PartialOrd, PartialEq for Version *)

u64_cmp(x, y) == IF x < y THEN "Less" ELSE IF x > y THEN "Greater" ELSE "Equal"

\* The for loop over a zip of n pairs; a vector shorter than n is continued
\* by chain(iter::repeat(&0)).
RECURSIVE cmp_loop(_, _, _, _)
cmp_loop(r1, r2, i, n) ==
    IF i > n THEN "Equal"
    ELSE LET s1 == IF i <= Len(r1) THEN r1[i] ELSE 0
             s2 == IF i <= Len(r2) THEN r2[i] ELSE 0
             r == u64_cmp(s1, s2)
         IN  IF r # "Equal" THEN r ELSE cmp_loop(r1, r2, i + 1, n)

\* Mutant of cmp: a plain zip, which stops at the end of the shorter release.
cmp_plain_zip(self, other) ==
    LET r == u64_cmp(unwrap_or(self.epoch, 0), unwrap_or(other.epoch, 0))
        n == IF Len(self.release) < Len(other.release)
             THEN Len(self.release) ELSE Len(other.release)
    IN  IF r # "Equal" THEN r ELSE cmp_loop(self.release, other.release, 1, n)

\* Mutant of cmp: the else branch without chain(iter::repeat(&0)).
cmp_else_unpadded(self, other) ==
    LET r == u64_cmp(unwrap_or(self.epoch, 0), unwrap_or(other.epoch, 0))
    IN  IF r # "Equal" THEN r
        ELSE IF Len(self.release) > Len(other.release)
        THEN cmp_loop(self.release, other.release, 1, Len(self.release))
        ELSE cmp_loop(self.release, other.release, 1, Len(self.release))

\* Mutant of cmp: a pre-release ordered before the release it precedes.
cmp_with_pre_release(self, other) ==
    LET r == u64_cmp(unwrap_or(self.epoch, 0), unwrap_or(other.epoch, 0))
        n == IF Len(self.release) > Len(other.release)
             THEN Len(self.release) ELSE Len(other.release)
        q == cmp_loop(self.release, other.release, 1, n)
    IN  IF r # "Equal" THEN r
        ELSE IF q # "Equal" THEN q
        ELSE IF is_some(self.pre_release) /\ ~is_some(other.pre_release) THEN "Less"
        ELSE IF ~is_some(self.pre_release) /\ is_some(other.pre_release) THEN "Greater"
        ELSE "Equal"

cmp(self, other) ==
    LET r == u64_cmp(unwrap_or(self.epoch, 0), unwrap_or(other.epoch, 0))
    IN  IF r # "Equal" THEN r
        ELSE IF Len(self.release) > Len(other.release)
        THEN cmp_loop(self.release, other.release, 1, Len(self.release))
        ELSE cmp_loop(self.release, other.release, 1, Len(other.release))

partial_cmp(self, other) == Some(cmp(self, other))

eq(self, other) == cmp(self, other) = "Equal"

----------------------------------------------------------------------------
(* The inputs of Version::parse.  Each is spelled segment by segment from   *)
(* small sets of spellings, well-formed and not: every pre-release,         *)
(* post-release and development-release spelling of RE in both cases, every *)
(* separator (single, doubled, absent) at every boundary, numerals with     *)
(* leading zeros and numerals beyond u64_MAX in each numeric position,      *)
(* local labels in both cases, the "v" prefix and surrounding whitespace.   *)

SepsOrDoubled ==
    { << >>, <<".">>, <<"-">>, <<"_">>, <<".", ".">>, <<"-", ".">>,
      <<"_", "-">> }
PreTags ==
    { <<"a">>, <<"a", "l", "p", "h", "a">>, <<"b">>, <<"b", "e", "t", "a">>,
      <<"r", "c">>, <<"c">>, <<"p", "r", "e">>,
      <<"p", "r", "e", "v", "i", "e", "w">>, <<"A">>, <<"B", "e", "t", "a">>,
      <<"R", "C">>, <<"P", "R", "E", "V", "I", "E", "W">> }
PostTags ==
    { <<"p", "o", "s", "t">>, <<"r", "e", "v">>, <<"r">>,
      <<"P", "o", "s", "t">>, <<"R">> }
DevTags ==
    { <<"d", "e", "v">>, <<"D", "E", "V">> }
Numerals ==
    { << >>, <<"0">>, <<"1">>, <<"0", "9">>, <<"9", "9">>, <<"1", "0", "0">> }
Epochs ==
    { << >>, <<"0", "!">>, <<"1", "!">>, <<"0", "9", "!">>,
      <<"9", "9", "!">>, <<"!">> }
Releases ==
    { <<"1">>, <<"1", ".", "0">>, <<"0", "1", ".", "1", "0">>,
      <<"2", ".", "9", "9">>, <<"1", ".", "2", ".", "3">>,
      <<"1", ".", ".", "2">>, <<"1", ".">> }
Locals ==
    { << >>, <<"+", "u">>, <<"+", "u", "b", "u", "n", "t", "u", "-", "1">>,
      <<"+", "u", "b", "u", "n", "t", "u", "_", "1">>,
      <<"+", "F", "o", "o", ".", "1">>, <<"+", "A">>,
      <<"+", "1", "-", "_", ".">>, <<"+">>, <<"+", "u", "+", "u">> }
Leads ==
    { << >>, <<" ">>, <<" ", "\t", "\n">> }
VPrefixes ==
    { << >>, <<"v">>, <<"V">>, <<"v", "v">> }
Trails ==
    { << >>, <<" ">>, <<"\t", "\n", " ">>, <<" ", "x">> }

\* One tagged segment after a release, every spelling of it.
SpellingInputs ==
    { <<"1", ".", "1">> \o s1 \o tag \o s2 \o n :
        s1 \in SepsOrDoubled, tag \in PreTags \cup PostTags \cup DevTags,
        s2 \in SepsOrDoubled, n \in Numerals }

\* The three optional segments side by side, each boundary with or without a
\* separator, each tag present or not, a number in the middle or not.
GridSeps ==
    { << >>, <<".">>, <<"-">> }
GridInputs ==
    { <<"1">> \o s1 \o t1 \o s2 \o s3 \o t2 \o s4 \o n \o s5 \o t3 :
        s1 \in GridSeps, t1 \in {<< >>, <<"a">>, <<"r", "c">>},
        s2 \in GridSeps,
        s3 \in GridSeps, t2 \in {<< >>, <<"p", "o", "s", "t">>, <<"r">>},
        s4 \in GridSeps, n \in {<< >>, <<"1">>},
        s5 \in GridSeps, t3 \in {<< >>, <<"d", "e", "v">>} }

\* A numeral in each numeric position.
FewNumerals ==
    { << >>, <<"1">>, <<"0", "9">>, <<"9", "9">> }
NumberInputs ==
    { e \o r \o pre \o post \o dev :
        e \in Epochs, r \in Releases,
        pre \in {<< >>} \cup {<<"a">> \o n : n \in FewNumerals},
        post \in {<< >>} \cup {<<".", "p", "o", "s", "t">> \o n : n \in FewNumerals}
                         \cup {<<"-">> \o n : n \in FewNumerals},
        dev \in {<< >>} \cup {<<".", "d", "e", "v">> \o n : n \in FewNumerals} }

\* What surrounds the public version: whitespace, the prefix, the local label.
AffixInputs ==
    { l \o v \o body \o loc \o tr :
        l \in Leads, v \in VPrefixes,
        body \in {<<"1">>, <<"1", "!", "2", ".", "3", "a", "4", ".", "p", "o", "s", "t", "5",
                            ".", "d", "e", "v", "6">>},
        loc \in Locals, tr \in Trails }

\* The strings the crate's own tests hand to Version::parse.
TestInputs ==
    { <<"1">>, <<"1", ".", "2", ".", "3">>, <<"1", "2", "!", "1">>,
      <<"1", "a", "2">>, <<"1", "b", "3">>, <<"1", "r", "c", "4">>,
      <<"1", ".", "p", "o", "s", "t", "2">>,
      <<"1", ".", "d", "e", "v", "3">>,
      <<"1", "0", "!", "1", "1", ".", "1", "2", ".", "1", "3", "a", "1", "4", ".", "p", "o", "s", "t", "1", "5", ".", "d", "e", "v", "1", "6">>,
      <<"1", ".", "1", ".", "R", "C", "1">>,
      <<"0", "1", "!", "0", "2", ".", "0", "3", "a", "0", "4", ".", "p", "o", "s", "t", "0", "5", ".", "d", "e", "v", "0", "6">>,
      <<"1", ".", "1", ".", "a", "1">>, <<"1", ".", "1", "-", "a", "1">>,
      <<"1", ".", "1", "_", "a", "1">>, <<"1", ".", "1", "a", ".", "1">>,
      <<"1", ".", "1", "a", "-", "1">>, <<"1", ".", "1", "a", "_", "1">>,
      <<"1", ".", "1", ".", ".", "a", "1">>,
      <<"1", ".", "1", "a", ".", ".", "1">>,
      <<"1", ".", "1", "a", "l", "p", "h", "a", "1">>,
      <<"1", ".", "1", "b", "e", "t", "a", "2">>,
      <<"1", ".", "1", "c", "3">>, <<"1", ".", "2", "a">>,
      <<"1", ".", "2", "p", "o", "s", "t", "2">>,
      <<"1", ".", "2", ".", "p", "o", "s", "t", "2">>,
      <<"1", ".", "2", "-", "p", "o", "s", "t", "2">>,
      <<"1", ".", "2", "_", "p", "o", "s", "t", "2">>,
      <<"1", ".", "2", ".", "p", "o", "s", "t", "-", "2">>,
      <<"1", ".", "2", ".", ".", "p", "o", "s", "t", "2">>,
      <<"1", ".", "2", "p", "o", "s", "t", ".", ".", "1">>,
      <<"1", ".", "0", "-", "r", "e", "v", "4">>,
      <<"1", ".", "0", "-", "r", "4">>,
      <<"1", ".", "2", ".", "p", "o", "s", "t">>,
      <<"1", ".", "0", "-", "1">>, <<"1", ".", "0", "-">>,
      <<"1", ".", "2", "-", "d", "e", "v", "2">>,
      <<"1", ".", "2", "d", "e", "v", "2">>,
      <<"1", ".", "2", ".", ".", "d", "e", "v", "2">>,
      <<"1", ".", "2", "d", "e", "v", "-", "2">>,
      <<"1", ".", "2", ".", "d", "e", "v">>,
      <<"1", ".", "0", "+", "u", "b", "u", "n", "t", "u", "-", "1">>,
      <<"1", ".", "0", "+", "u", "b", "u", "n", "t", "u", "_", "1">>,
      <<"v", "1", ".", "2", ".", "0">>, <<"V", "1", ".", "2", ".", "0">>,
      <<" ", "\t", "\n", "1", ".", "2", ".", "0", "\t", "\n", " ">>,
      <<"1", ".", "2", ".", "0">>, <<"1", "!", "1", ".", "2", ".", "0">>,
      <<"1", ".", "2", ".", "0", "a", "1">>,
      <<"1", ".", "2", ".", "0", "b", "1">>,
      <<"1", ".", "2", ".", "0", "r", "c", "1">>,
      <<"1", ".", "2", ".", "0", ".", "p", "o", "s", "t", "1">>,
      <<"1", ".", "2", ".", "0", ".", "d", "e", "v", "1">>,
      <<"1", ".", "2", ".", "0", "+", "f", "o", "o", ".", "1">>,
      <<"1", "!", "2", ".", "3", ".", "4", "a", "5", ".", "p", "o", "s", "t", "6", ".", "d", "e", "v", "7", "+", "f", "o", "o", ".", "1">> }

Inputs ==
    SpellingInputs \cup GridInputs \cup NumberInputs \cup AffixInputs \cup TestInputs

----------------------------------------------------------------------------
(* The operands of the comparator: Version is a struct of public fields,    *)
(* so every combination of field values is a Version.                       *)

\* cmp reads numbers only through u64's own order, so two of them tell the
\* three outcomes apart.
Numbers == {0, 1}

ReleaseVectors == UNION { [1..n -> Numbers] : n \in 1..MaxRelease }

\* Fields the comparator may or may not read.
OtherFields ==
    { [pre |-> None, post |-> None, dev |-> None, local_label |-> None],
      [pre |-> Some(Alpha(1)), post |-> Some(0), dev |-> Some(1),
       local_label |-> Some(<<"x">>)] }

Versions ==
    { Version(e, r, o.pre, o.post, o.dev, o.local_label) :
        e \in {None} \cup {Some(n) : n \in Numbers}, r \in ReleaseVectors, o \in OtherFields }

NoVersion == Version(None, <<0>>, None, None, None, None)

----------------------------------------------------------------------------
(* The parsing pipeline: parse, format, parse again, compare.               *)

Init ==
    /\ input \in Inputs
    /\ result = None
    /\ rendered = None
    /\ reparsed = None
    /\ roundtrip = None
    /\ a = NoVersion /\ b = NoVersion /\ c = NoVersion
    /\ ord = None

\* let r = Version::parse(input);
Parse ==
    /\ result = None
    /\ result' = Some(parse(input))
    /\ UNCHANGED <<input, rendered, reparsed, roundtrip, a, b, c, ord>>

\* let s = format!("{}", r.unwrap());
Format ==
    /\ is_some(result) /\ unwrap(result).ok
    /\ rendered = None
    /\ rendered' = Some(fmt(unwrap(result).val))
    /\ UNCHANGED <<input, result, reparsed, roundtrip, a, b, c, ord>>

\* let r2 = Version::parse(&s);
Reparse ==
    /\ is_some(rendered)
    /\ reparsed = None
    /\ reparsed' = Some(parse(unwrap(rendered)))
    /\ UNCHANGED <<input, result, rendered, roundtrip, a, b, c, ord>>

\* r.cmp(&r2.unwrap())
Roundtrip ==
    /\ is_some(reparsed) /\ unwrap(reparsed).ok
    /\ roundtrip = None
    /\ roundtrip' = Some(cmp(unwrap(result).val, unwrap(reparsed).val))
    /\ UNCHANGED <<input, result, rendered, reparsed, a, b, c, ord>>

Next == Parse \/ Format \/ Reparse \/ Roundtrip

Spec == Init /\ [][Next]_vars

----------------------------------------------------------------------------
(* The comparator on three operands.                                        *)

InitCmp ==
    /\ input = << >>
    /\ result = None /\ rendered = None /\ reparsed = None /\ roundtrip = None
    /\ a \in Versions /\ b \in Versions /\ c \in Versions
    /\ ord = None

\* a.cmp(&b), b.cmp(&a), ... and a == b, ...
Compare ==
    /\ ord = None
    /\ ord' = Some([aa |-> cmp(a, a), ab |-> cmp(a, b), ba |-> cmp(b, a),
                    bc |-> cmp(b, c), ac |-> cmp(a, c),
                    eq_ab |-> eq(a, b), eq_bc |-> eq(b, c), eq_ac |-> eq(a, c),
                    partial_ab |-> partial_cmp(a, b)])
    /\ UNCHANGED <<input, result, rendered, reparsed, roundtrip, a, b, c>>

NextCmp == Compare

SpecCmp == InitCmp /\ [][NextCmp]_vars

----------------------------------------------------------------------------
(* Reading an input by the grammar of the version scheme, independently of  *)
(* RE: one pass from the left, each segment taking what it can.  The claims *)
(* below compare what Version::parse stores with this reading.              *)

AlphaTags == { <<"a">>, <<"a", "l", "p", "h", "a">> }
BetaTags == { <<"b">>, <<"b", "e", "t", "a">> }
CandidateTags ==
    { <<"r", "c">>, <<"c">>, <<"p", "r", "e">>, <<"p", "r", "e", "v", "i", "e", "w">> }
PreTagSet == AlphaTags \cup BetaTags \cup CandidateTags
PostTagSet == { <<"p", "o", "s", "t">>, <<"r", "e", "v">>, <<"r">> }
DevTagSet == { <<"d", "e", "v">> }

\* The longest of the tags that stands at position p of s, or << >>.
TagAt(s, p, tags) ==
    LET here == { tag \in tags : LitAt(s, p, tag) }
    IN  IF here = {} THEN << >>
        ELSE CHOOSE tag \in here : \A other \in here : Len(other) <= Len(tag)

DigitsAt(s, p) == SubSeq(s, p, p + Run(s, p, DigitSet) - 1)

SepAt(s, p) == p <= Len(s) /\ IsSep(s[p])
DigitAt(s, p) == p <= Len(s) /\ IsDigit(s[p])

\* Where a tag begins at or after p: behind one separator, or at p itself.
TagStart(s, p, tags) ==
    IF SepAt(s, p) /\ TagAt(s, p + 1, tags) # << >> THEN p + 1 ELSE p

\* The digits that follow a tag ending before p, directly or behind one
\* separator, and the position after them.
NumberAfter(s, p) ==
    IF DigitAt(s, p)
        THEN [digits |-> DigitsAt(s, p), next |-> p + Run(s, p, DigitSet)]
    ELSE IF SepAt(s, p) /\ DigitAt(s, p + 1)
        THEN [digits |-> DigitsAt(s, p + 1), next |-> p + 1 + Run(s, p + 1, DigitSet)]
    ELSE IF SepAt(s, p) /\ SepAt(s, p + 1)
        THEN [digits |-> << >>, next |-> p + 1]
    ELSE [digits |-> << >>, next |-> p]

\* The value a string of decimal digits denotes; no digits denote 0.
RECURSIVE DenoteFrom(_, _)
DenoteFrom(lex, i) ==
    IF i > Len(lex) THEN 0
    ELSE DigitValue[lex[i]] * 10^(Len(lex) - i) + DenoteFrom(lex, i + 1)
Denote(lex) == DenoteFrom(lex, 1)

\* The components of a release lexeme: its maximal runs of digits, in order.
Components(lex) ==
    LET starts == { i \in 1..Len(lex) : IsDigit(lex[i]) /\ (i = 1 \/ lex[i - 1] = ".") }
        nth(k) == CHOOSE i \in starts : Cardinality({ j \in starts : j < i }) = k - 1
    IN  [k \in 1..Cardinality(starts) |-> DigitsAt(lex, nth(k))]

Read(s) ==
    LET p0 == 1 + Run(s, 1, SpaceSet)
        p1 == IF LitAt(s, p0, <<"v">>) THEN p0 + 1 ELSE p0
        n == Run(s, p1, DigitSet)
        hasEpoch == n > 0 /\ p1 + n <= Len(s) /\ s[p1 + n] = "!"
        p2 == IF hasEpoch THEN p1 + n + 1 ELSE p1
        m == Run(s, p2, DigitOrDotSet)
        p3 == IF m > 0 /\ s[p2 + m - 1] = "." THEN p2 + m - 1 ELSE p2 + m
        preAt == TagStart(s, p3, PreTagSet)
        preTag == TagAt(s, preAt, PreTagSet)
        preNum == NumberAfter(s, preAt + Len(preTag))
        p4 == IF preTag # << >> THEN preNum.next ELSE p3
        postAt == TagStart(s, p4, PostTagSet)
        postTag == TagAt(s, postAt, PostTagSet)
        postNum == NumberAfter(s, postAt + Len(postTag))
        implicit == postTag = << >> /\ p4 <= Len(s) /\ s[p4] = "-" /\ DigitAt(s, p4 + 1)
        p5 == IF postTag # << >> THEN postNum.next
              ELSE IF implicit THEN p4 + 1 + Run(s, p4 + 1, DigitSet)
              ELSE p4
        devAt == TagStart(s, p5, DevTagSet)
        devTag == TagAt(s, devAt, DevTagSet)
    IN  [ epoch |-> IF hasEpoch THEN Some(SubSeq(s, p1, p1 + n - 1)) ELSE None,
          release |-> Components(SubSeq(s, p2, p3 - 1)),
          pre_tag |-> preTag,
          pre |-> IF preTag # << >> THEN Some(preNum.digits) ELSE None,
          post |-> IF postTag # << >> THEN Some(postNum.digits)
                   ELSE IF implicit THEN Some(DigitsAt(s, p4 + 1))
                   ELSE None,
          dev |-> IF devTag # << >> THEN Some(DigitsAt(s, devAt + 3)) ELSE None ]

\* Every numeral of a reading.
Numerals_of(rd) ==
    { rd.release[k] : k \in 1..Len(rd.release) }
        \cup { unwrap(o) : o \in { x \in {rd.epoch, rd.pre, rd.post, rd.dev} : is_some(x) } }

\* Some(n) for Some(digits) that denote n, None for None.
DenoteOpt(o) == IF is_some(o) THEN Some(Denote(unwrap(o))) ELSE None

\* The input up to, and not including, its first '+'.
PublicLen(s) ==
    IF \E i \in 1..Len(s) : s[i] = "+"
    THEN (CHOOSE i \in 1..Len(s) : s[i] = "+" /\ \A j \in 1..(i - 1) : s[j] # "+") - 1
    ELSE Len(s)

\* The characters of the local label as the input spells it.
LabelOf(s) ==
    LET from == PublicLen(s) + 2
    IN  SubSeq(s, from, from + Run(s, from, LocalSet) - 1)

Parsed == is_some(result) /\ unwrap(result).ok
Failed == is_some(result) /\ ~unwrap(result).ok
version == unwrap(result).val
error == unwrap(result).val

----------------------------------------------------------------------------
(* C1: whenever parsing an input succeeds, the formatted version parses     *)
(* again, and the two parsed versions compare Equal.                        *)
C1_RoundTrip ==
    Parsed =>
        /\ is_some(reparsed) => unwrap(reparsed).ok
        /\ is_some(roundtrip) => unwrap(roundtrip) = "Equal"

\* A round trip through a canonical string that differs from the input.
C1_Witness ==
    /\ Parsed /\ is_some(roundtrip) /\ unwrap(roundtrip) = "Equal"
    /\ unwrap(rendered) # input
    /\ is_some(version.epoch) /\ is_some(version.pre_release)
    /\ is_some(version.post_release) /\ is_some(version.dev_release)
    /\ is_some(version.local_label)

----------------------------------------------------------------------------
(* C2: cmp is the lexicographic comparison of (epoch or 0) followed by the  *)
(* release numbers, the shorter release padded with zeros on the right.     *)

Padded(r, n) == [i \in 1..n |-> IF i <= Len(r) THEN r[i] ELSE 0]
Key(v, n) == <<unwrap_or(v.epoch, 0)>> \o Padded(v.release, n)
Longer(v, w) == IF Len(v.release) > Len(w.release) THEN Len(v.release) ELSE Len(w.release)

Lexicographic(x, y) ==
    IF x = y THEN "Equal"
    ELSE LET i == CHOOSE k \in 1..Len(x) : x[k] # y[k] /\ \A j \in 1..(k - 1) : x[j] = y[j]
         IN  IF x[i] < y[i] THEN "Less" ELSE "Greater"

Expected(v, w) == Lexicographic(Key(v, Longer(v, w)), Key(w, Longer(v, w)))

Release(r) == Version(None, r, None, None, None, None)

C2_Examples ==
    /\ cmp(Release(<<1, 2>>), Release(<<1, 2, 0>>)) = "Equal"
    /\ cmp(Release(<<1, 2, 0>>), Release(<<1, 2>>)) = "Equal"
    /\ cmp(Release(<<1, 2>>), Release(<<1, 3>>)) = "Less"
    /\ cmp(Release(<<1, 2, 0>>), Release(<<1, 3>>)) = "Less"
    /\ cmp(Release(<<1, 2>>), Release(<<1, 3, 0>>)) = "Less"

\* C2: cmp(a, b) is the lexicographic comparison of (epoch or 0) followed by
\* the release numbers, the shorter release padded with zeros, whichever
\* operand is the longer; [1,2] against [1,2,0] is Equal, against [1,3] Less.
C2_PaddedLexicographic ==
    /\ is_some(ord) =>
        /\ unwrap(ord).ab = Expected(a, b)
        /\ unwrap(ord).ba = Expected(b, a)
        /\ unwrap(ord).partial_ab = Some(Expected(a, b))
    /\ C2_Examples

\* The order is decided among the zeros that pad the shorter release.
C2_Witness ==
    /\ is_some(ord)
    /\ Len(a.release) < Len(b.release)
    /\ SubSeq(b.release, 1, Len(a.release)) = a.release
    /\ unwrap(ord).ab = "Less" /\ unwrap(ord).ba = "Greater"

----------------------------------------------------------------------------
(* C3: cmp and == read the epoch and the release only: versions with the    *)
(* same epoch (or 0) and the same zero-padded release are Equal and ==,     *)
(* whatever pre_release, post_release, dev_release and local_label hold.    *)

SameKey(v, w) == Key(v, Longer(v, w)) = Key(w, Longer(v, w))

C3_Inputs ==
    { <<"1", ".", "0", "a", "1">>, <<"1", ".", "0">>,
      <<"1", ".", "0", ".", "p", "o", "s", "t", "1">>,
      <<"1", ".", "0", ".", "d", "e", "v", "1">> }

C3_Examples ==
    \A x \in C3_Inputs : \A y \in C3_Inputs :
        /\ parse(x).ok /\ parse(y).ok
        /\ cmp(parse(x).val, parse(y).val) = "Equal"
        /\ eq(parse(x).val, parse(y).val)

\* C3: operands with the same epoch (or 0) and the same zero-padded release
\* compare Equal and are ==, whatever their other four fields hold; so do the
\* parses of 1.0a1, 1.0, 1.0.post1 and 1.0.dev1.
C3_OtherFieldsIgnored ==
    /\ (is_some(ord) /\ SameKey(a, b)) =>
        /\ unwrap(ord).ab = "Equal" /\ unwrap(ord).ba = "Equal"
        /\ unwrap(ord).eq_ab
    /\ C3_Examples

\* Equal operands that differ in each of the four other fields.
C3_Witness ==
    /\ is_some(ord) /\ unwrap(ord).eq_ab /\ unwrap(ord).ab = "Equal"
    /\ a.pre_release # b.pre_release /\ a.post_release # b.post_release
    /\ a.dev_release # b.dev_release /\ a.local_label # b.local_label
    /\ Len(a.release) # Len(b.release)

----------------------------------------------------------------------------
(* C4: cmp is a total order and == is "compares Equal": cmp is reflexive,   *)
(* cmp(b, a) is the reverse of cmp(a, b), Less is transitive, a == b iff    *)
(* cmp(a, b) is Equal, and == is transitive.                                *)

Reverse(o) == IF o = "Less" THEN "Greater" ELSE IF o = "Greater" THEN "Less" ELSE "Equal"

\* C4: cmp is reflexive, antisymmetric and transitive, == is "cmp is Equal",
\* and == is transitive, across releases of different lengths.
C4_TotalOrder ==
    is_some(ord) =>
        LET o == unwrap(ord)
        IN  /\ o.aa = "Equal"
            /\ o.ab \in {"Less", "Equal", "Greater"}
            /\ o.ba = Reverse(o.ab)
            /\ (o.ab = "Less" /\ o.bc = "Less") => o.ac = "Less"
            /\ o.eq_ab <=> (o.ab = "Equal")
            /\ o.eq_bc <=> (o.bc = "Equal")
            /\ (o.eq_ab /\ o.eq_bc) => o.eq_ac

\* a < b < c, the release of b as long as neither of the other two.
C4_Witness ==
    /\ is_some(ord)
    /\ unwrap(ord).ab = "Less" /\ unwrap(ord).bc = "Less" /\ unwrap(ord).ac = "Less"
    /\ Len(a.release) # Len(b.release) /\ Len(b.release) # Len(c.release)

----------------------------------------------------------------------------
(* C5 (as claimed): parse fails on every input in which two of '.', '_',    *)
(* '-' are adjacent before the '+' of the local label.                      *)

HasDoubledSeparator(s) ==
    \E i \in 1..(PublicLen(s) - 1) : IsSep(s[i]) /\ IsSep(s[i + 1])

\* C5 (as claimed): a doubled separator before the local label makes parse fail.
C5_DoubledSeparatorsRejected ==
    (is_some(result) /\ HasDoubledSeparator(input)) => ~unwrap(result).ok

----------------------------------------------------------------------------
(* C6 (as claimed): after a successful parse local_label is absent or holds *)
(* lower-case letters, digits and dots only, each '_' and '-' of the        *)
(* input's label replaced by '.'.                                           *)

C6_LocalLabelNormalized ==
    (Parsed /\ is_some(version.local_label)) =>
        LET label == unwrap(version.local_label)
            spelt == LabelOf(input)
        IN  /\ \A i \in 1..Len(label) : label[i] \in LowerSet \cup DigitSet \cup {"."}
            /\ Len(label) = Len(spelt)
            /\ \A i \in 1..Len(label) :
                    IF spelt[i] \in {"_", "-"} THEN label[i] = "." ELSE TRUE

----------------------------------------------------------------------------
(* C7 (as claimed): every failing parse returns the Parse error kind        *)
(* carrying the input string verbatim.                                      *)

C7_ParseErrorCarriesInput ==
    Failed => (error.kind = "Parse" /\ error.text = input)

----------------------------------------------------------------------------
(* C8: when the grammar matches, a numeral that denotes more than u64_MAX   *)
(* in the epoch, the release or a pre-, post- or dev-release number makes   *)
(* parse return an error; otherwise parse succeeds and every numeric field  *)
(* holds exactly the value its numeral denotes.                             *)

\* C8: a matched numeral above u64_MAX is an error; otherwise parse succeeds
\* and the numeric fields hold the denoted values.
C8_OverflowIsAnError ==
    (is_some(result) /\ is_some(RE_captures(input))) =>
        LET rd == Read(input)
        IN  IF \E lex \in Numerals_of(rd) : Denote(lex) > u64_MAX
            THEN /\ Failed
                 /\ error.kind \in {"Parse", "Msg"}
            ELSE /\ Parsed
                 /\ version.epoch = DenoteOpt(rd.epoch)
                 /\ version.release = [k \in 1..Len(rd.release) |-> Denote(rd.release[k])]
                 /\ \A k \in 1..Len(version.release) : version.release[k] \in 0..u64_MAX
                 /\ is_some(rd.pre) => unwrap(version.pre_release).val = Denote(unwrap(rd.pre))
                 /\ version.post_release = DenoteOpt(rd.post)
                 /\ version.dev_release = DenoteOpt(rd.dev)

\* An input the grammar matches whose numeral overflows, turned into an error.
C8_Witness ==
    /\ Failed /\ is_some(RE_captures(input))
    /\ \E lex \in Numerals_of(Read(input)) : Denote(lex) > u64_MAX

----------------------------------------------------------------------------
(* C9: after a successful parse, pre_release, post_release and dev_release  *)
(* are present exactly when the input spells that segment's tag (or, for    *)
(* the post-release, "-N"), and hold the value of the digits behind the     *)
(* tag, 0 when there are none.                                              *)

C9_ImplicitNumber ==
    Parsed =>
        LET rd == Read(input)
        IN  /\ is_some(version.pre_release) <=> is_some(rd.pre)
            /\ is_some(rd.pre) => unwrap(version.pre_release).val = Denote(unwrap(rd.pre))
            /\ version.post_release = DenoteOpt(rd.post)
            /\ version.dev_release = DenoteOpt(rd.dev)

\* Tags without digits stored as 0 beside a segment that is absent.
C9_Witness ==
    /\ Parsed
    /\ Read(input).pre = Some(<< >>) /\ Read(input).dev = Some(<< >>)
    /\ Read(input).post = None
    /\ unwrap(version.pre_release).val = 0
    /\ version.dev_release = Some(0) /\ version.post_release = None

----------------------------------------------------------------------------
(* C10: after a successful parse of an input with a pre-release tag, in any *)
(* case and with or without a separator around it, a and alpha give Alpha,  *)
(* b and beta give Beta, rc, c, pre and preview give ReleaseCandidate; fmt  *)
(* writes them "a{n}", "b{n}" and "rc{n}".                                  *)

KindOf(tag) ==
    IF tag \in AlphaTags THEN "Alpha"
    ELSE IF tag \in BetaTags THEN "Beta"
    ELSE "ReleaseCandidate"

Canonical(kind) ==
    IF kind = "Alpha" THEN <<"a">>
    ELSE IF kind = "Beta" THEN <<"b">>
    ELSE <<"r", "c">>

LetterSet == LowerSet \cup UpperSet
IsLetter(ch) == ch \in LetterSet

\* The first run of letters of s, and the run of digits right behind it.
FirstWord(s) ==
    LET p == CHOOSE i \in 1..(Len(s) + 1) :
                /\ (i = Len(s) + 1 \/ IsLetter(s[i]))
                /\ \A j \in 1..(i - 1) : ~IsLetter(s[j])
        n == Run(s, p, LetterSet)
    IN  [word |-> SubSeq(s, p, p + n - 1), digits |-> DigitsAt(s, p + n)]

\* C10: each spelling of the pre-release tag is stored as its kind and written
\* by fmt as a, b or rc followed by the number.
C10_PreReleaseSpelling ==
    (Parsed /\ Read(input).pre_tag # << >>) =>
        /\ is_some(version.pre_release)
        /\ unwrap(version.pre_release).kind = KindOf(Read(input).pre_tag)
        /\ is_some(rendered) =>
            LET shown == FirstWord(SubSeq(unwrap(rendered), 1, PublicLen(unwrap(rendered))))
            IN  /\ shown.word = Canonical(KindOf(Read(input).pre_tag))
                /\ shown.digits = to_string(unwrap(version.pre_release).val)

\* "preview" in capitals behind a separator, formatted as rc.
C10_Witness ==
    /\ Parsed /\ is_some(rendered)
    /\ Read(input).pre_tag = <<"p", "r", "e", "v", "i", "e", "w">>
    /\ \E i \in 1..Len(input) : input[i] = "P"
    /\ unwrap(version.pre_release).kind = "ReleaseCandidate"

====
